---- MODULE Spec2Model ----
(***************************************************************************)
(* Conversation orchestration and tracing of the Azure OpenAI agent demos. *)
(*                                                                         *)
(* The repository holds several entry points that each implement the       *)
(* "process one user turn" operation:                                      *)
(*   Opik.py     OpikDemoAgent.process_with_tracing, driven by run_demo    *)
(*   AzureApp.py AIAgentApp.process_message, driven by the Streamlit main  *)
(*   CLIApp.py   SimpleAIAgent.process_message, driven by run_chat         *)
(*   App.py      OpenAIAgentApp.process_query / run_query_sync             *)
(*   Agent.py    get_response, driven by the Streamlit main                *)
(* AzureApp.py is also run as two browser sessions of one server           *)
(* ("Sessions"), each with its own st.session_state.  OpikAnalytics.py is  *)
(* the offline report over the traces of the Opik project.                 *)
(* One behaviour of the model is one run of one entry point (app).         *)
(* Texts are sequences of one-character strings so that formatting and     *)
(* substring tests are computed, not assumed.                              *)
(***************************************************************************)
EXTENDS Integers, Sequences, FiniteSets, TLC

VARIABLES app, env, pc, agent, agent_status, messages, sink, call, ret, gwCalls, turns,
          conv, msg, total_interactions, stats, sessions, analytics, built, cli

vars == <<app, env, pc, agent, agent_status, messages, sink, call, ret, gwCalls, turns,
          conv, msg, total_interactions, stats, sessions, analytics, built, cli>>

----------------------------------------------------------------------------
(* Bounds of the exploration *)

MaxTurns == 3

----------------------------------------------------------------------------
(* Texts *)

ErrorProcessingMessage == <<"E","r","r","o","r"," ","p","r","o","c","e","s","s","i","n","g"," ","m","e","s","s","a","g","e",":"," ">>
ErrorProcessingQuery == <<"E","r","r","o","r"," ","p","r","o","c","e","s","s","i","n","g"," ","q","u","e","r","y",":"," ">>
ErrorPrefix == <<"E","r","r","o","r",":"," ">>
SorryPrefix == <<"S","o","r","r","y",","," ","I"," ","e","n","c","o","u","n","t","e","r","e","d"," ","a","n"," ","e","r","r","o","r",":"," ">>
NestedLoopMsg == <<"a","s","y","n","c","i","o",".","r","u","n","(",")"," ","c","a","n","n","o","t"," ","b","e"," ","c","a","l","l","e","d"," ","f","r","o","m"," ","a"," ","r","u","n","n","i","n","g"," ","e","v","e","n","t"," ","l","o","o","p">>
Greeting == <<"H","e","l","l","o","!"," ","I","'","m"," ","y","o","u","r"," ","A","z","u","r","e"," ","A","I"," ","A","s","s","i","s","t","a","n","t"," ","w","i","t","h"," ","O","p","i","k"," ","t","r","a","c","i","n","g","."," ","H","o","w"," ","c","a","n"," ","I"," ","h","e","l","p"," ","y","o","u"," ","t","o","d","a","y","?">>
LowerError == <<"e","r","r","o","r">>

\* Python's `sub in s` on strings
Contains(s, sub) ==
    \E i \in 1..(Len(s) - Len(sub) + 1) : SubSeq(s, i, i + Len(sub) - 1) = sub

\* Python's s.startswith(p)
StartsWith(s, p) == Len(s) >= Len(p) /\ SubSeq(s, 1, Len(p)) = p

\* what the user may type, what the model may answer, what a fault may say
UserTexts == { <<"h","i">>, <<"y","o">> }
Completions == { <<"o","k">>, <<"n","o"," ","e","r","r","o","r">> }
GatewayMsg == <<"b","o","o","m">>
SinkMsg == <<"s","i","n","k"," ","d","o","w","n">>
NoText == <<>>

----------------------------------------------------------------------------
(* Exceptions and outcomes of the external calls *)

NoExc == [type |-> "None", msg |-> NoText]
Exc(t, m) == [type |-> t, msg |-> m]

\* `except Exception` does not catch KeyboardInterrupt or CancelledError
IsException(e) == e.type \notin {"None", "KeyboardInterrupt", "CancelledError"}

\* outcomes of `await Runner.run(...)`
GwOk(t) == [kind |-> "ok", text |-> t, exc |-> NoExc]
GwRaise(e) == [kind |-> "raise", text |-> NoText, exc |-> e]
NoGw == [kind |-> "none", text |-> NoText, exc |-> NoExc]
GatewayFaults == { Exc("APIConnectionError", GatewayMsg) }
Interrupts == { Exc("KeyboardInterrupt", NoText), Exc("CancelledError", NoText) }
GatewayOutcomes == { GwOk(t) : t \in Completions } \cup { GwRaise(e) : e \in GatewayFaults }
AbandonOutcomes == { GwRaise(e) : e \in Interrupts }

\* variant: the except branch invokes the gateway once more
RunnerRunsInExcept_Retry(gw) == IF gw.kind = "raise" /\ IsException(gw.exc) THEN 1 ELSE 0

\* how often the handling of a gateway outcome invokes Runner.run again: the
\* call sits in no loop and the except branch only logs and returns
RunnerRunsInExcept(gw) == 0

\* outcomes of one opik.log_traces call
SinkOk == NoExc
SinkOutcomes == { SinkOk, Exc("ConnectionError", SinkMsg) }

\* what a call evaluates to: a returned text or a raised exception
Returned(t) == [kind |-> "text", text |-> t, exc |-> NoExc]
Raised(e) == [kind |-> "raised", text |-> NoText, exc |-> e]
NoRet == [kind |-> "none", text |-> NoText, exc |-> NoExc]

\* a call succeeds when it returns the completion the gateway produced
IsSuccess(r, gw) == gw.kind = "ok" /\ r = Returned(gw.text)

\* running totals of the session: process calls that succeeded, process calls
\* that did not, and Turns appended to the history by the chat handling
Count(st, r, gw, n) ==
    [ok |-> st.ok + (IF IsSuccess(r, gw) THEN 1 ELSE 0),
     bad |-> st.bad + (IF IsSuccess(r, gw) THEN 0 ELSE 1),
     appended |-> st.appended + n]

----------------------------------------------------------------------------
(* Session history (st.session_state.messages) *)

Turn(r, c) == [role |-> r, content |-> c]

----------------------------------------------------------------------------
(* Trace records handed to opik.log_traces *)

NoConv == "None"

TraceRecord(n, i, o, c, s, et) ==
    [name |-> n, input |-> i, output |-> o, conversation_id |-> c,
     success |-> s, error_type |-> et]

\* variant: a record list is delivered twice
LogTraces_Twice(rec, sk) == IF sk = SinkOk THEN <<rec, rec>> ELSE <<>>

\* emit one record list: appended to the sink unless the sink call raises
LogTraces(rec, sk) == IF sk = SinkOk THEN <<rec>> ELSE <<>>

----------------------------------------------------------------------------
(* asyncio.run(coro): refuses to start inside a running event loop, else   *)
(* drives the coroutine to completion and hands its outcome through.       *)

\* variant: the bridge starts the coroutine even inside a running loop
asyncio_run_Nested(coroRet, inLoop) == coroRet

asyncio_run(coroRet, inLoop) ==
    IF inLoop THEN Raised(Exc("RuntimeError", NestedLoopMsg)) ELSE coroRet

----------------------------------------------------------------------------
(* AzureApp.py *)

\* variant: the except branch returns the bare message of the fault
AIAgentApp_process_message_BareMessage(user_input, gw, sk) ==
    IF gw.kind = "ok"
    THEN IF sk = SinkOk
         THEN [emit |-> LogTraces(TraceRecord("azure_agent_response", user_input,
                                              gw.text, NoConv, "absent", "None"), sk),
               ret |-> Returned(gw.text)]
         ELSE [emit |-> <<>>, ret |-> Returned(sk.msg)]
    ELSE IF IsException(gw.exc)
         THEN [emit |-> <<>>, ret |-> Returned(gw.exc.msg)]
         ELSE [emit |-> <<>>, ret |-> Raised(gw.exc)]

\* process_message, from the resumption of `await Runner.run` to its return
AIAgentApp_process_message(user_input, gw, sk) ==
    IF gw.kind = "ok"
    THEN IF sk = SinkOk
         THEN [emit |-> LogTraces(TraceRecord("azure_agent_response", user_input,
                                              gw.text, NoConv, "absent", "None"), sk),
               ret |-> Returned(gw.text)]
         ELSE [emit |-> <<>>, ret |-> Returned(ErrorProcessingMessage \o sk.msg)]
    ELSE IF IsException(gw.exc)
         THEN [emit |-> <<>>, ret |-> Returned(ErrorProcessingMessage \o gw.exc.msg)]
         ELSE [emit |-> <<>>, ret |-> Raised(gw.exc)]

\* Runner.run(agent=self.agent, input=user_input): the messages the model
\* gateway is handed for a text input are that text as one user message
Runner_input(user_input) == <<Turn("user", user_input)>>

\* `if "messages" not in st.session_state` (the key is absent until then)
AzureInitHistory(m) == IF m = <<>> THEN <<Turn("assistant", Greeting)>> ELSE m

\* variant: the response is stored in front of the history
AzureAfterBridge_Prepend(m, r) ==
    IF r.kind = "text"
    THEN <<Turn("assistant", r.text)>> \o m
    ELSE IF IsException(r.exc)
         THEN <<Turn("assistant", SorryPrefix \o r.exc.msg)>> \o m
         ELSE m

\* variant: a degraded response is shown but not stored
AzureAfterBridge_SkipDegraded(m, r) ==
    IF r.kind = "text" /\ ~StartsWith(r.text, ErrorProcessingMessage)
    THEN Append(m, Turn("assistant", r.text))
    ELSE m

\* the tail of the chat-input branch of main: the try/except around the bridge
AzureAfterBridge(m, r) ==
    IF r.kind = "text"
    THEN Append(m, Turn("assistant", r.text))
    ELSE IF IsException(r.exc)
         THEN Append(m, Turn("assistant", SorryPrefix \o r.exc.msg))
         ELSE m

----------------------------------------------------------------------------
(* Opik.py *)

\* demo_conversations: a list of conversations, each an id and a list of
\* messages.  The script lists three conversations of three messages; the
\* exploration runs the first NumConversations of them and the first two
\* messages of each.  The message texts stand for the literals of the script;
\* only their identity matters.
NumConversations == 2
Digit(i) == <<"0","1","2","3","4","5","6","7","8","9">>[i + 1]
ConvId(c) == <<"conv_001", "conv_002", "conv_003", "conv_004">>[c]
DemoMessage(c, m) == <<"m", Digit(c), Digit(m)>>
ConversationMessages(c) == <<DemoMessage(c, 1), DemoMessage(c, 2)>>

\* variant: the error record is logged without the conversation id
OpikExcept_NoConversation(user_input, conversation_id, e, sk) ==
    [emit |-> LogTraces(TraceRecord("agent_error", user_input, e.msg,
                                    NoConv, "False", e.type), sk),
     ret |-> IF sk = SinkOk THEN Returned(SorryPrefix \o e.msg) ELSE Raised(sk)]

\* the except branch of process_with_tracing
OpikExcept(user_input, conversation_id, e, sk) ==
    [emit |-> LogTraces(TraceRecord("agent_error", user_input, e.msg,
                                    conversation_id, "False", e.type), sk),
     ret |-> IF sk = SinkOk THEN Returned(SorryPrefix \o e.msg) ELSE Raised(sk)]

\* process_with_tracing up to the suspension at `await Runner.run`
process_with_tracing_begin(user_input, conversation_id, sk1, sk2) ==
    IF sk1 = SinkOk
    THEN [suspended |-> TRUE,
          emit |-> LogTraces(TraceRecord("user_input_received", user_input, NoText,
                                         conversation_id, "absent", "None"), sk1),
          ret |-> NoRet]
    ELSE LET h == OpikExcept(user_input, conversation_id, sk1, sk2)
         IN  [suspended |-> FALSE, emit |-> h.emit, ret |-> h.ret]

\* variant: the input record is logged once more after the response record
process_with_tracing_resume_LateInput(user_input, conversation_id, gw, sk1, sk2) ==
    IF gw.kind = "ok"
    THEN IF sk1 = SinkOk
         THEN [emit |-> LogTraces(TraceRecord("agent_response_generated", user_input,
                                              gw.text, conversation_id, "True", "None"), sk1)
                        \o LogTraces(TraceRecord("user_input_received", user_input, NoText,
                                                 conversation_id, "absent", "None"), sk1),
               ret |-> Returned(gw.text)]
         ELSE OpikExcept(user_input, conversation_id, sk1, sk2)
    ELSE IF IsException(gw.exc)
         THEN OpikExcept(user_input, conversation_id, gw.exc, sk2)
         ELSE [emit |-> <<>>, ret |-> Raised(gw.exc)]

\* process_with_tracing from the resumption of `await Runner.run` on
process_with_tracing_resume(user_input, conversation_id, gw, sk1, sk2) ==
    IF gw.kind = "ok"
    THEN IF sk1 = SinkOk
         THEN [emit |-> LogTraces(TraceRecord("agent_response_generated", user_input,
                                              gw.text, conversation_id, "True", "None"), sk1),
               ret |-> Returned(gw.text)]
         ELSE OpikExcept(user_input, conversation_id, sk1, sk2)
    ELSE IF IsException(gw.exc)
         THEN OpikExcept(user_input, conversation_id, gw.exc, sk2)
         ELSE [emit |-> <<>>, ret |-> Raised(gw.exc)]

\* where run_demo / main go once a process_with_tracing call is over
OpikAfterCall(r, c, m) ==
    IF r.kind = "text"
    THEN IF m < Len(ConversationMessages(c)) THEN [pc |-> "idle", conv |-> c, msg |-> m + 1]
         ELSE IF c < NumConversations THEN [pc |-> "idle", conv |-> c + 1, msg |-> 1]
         ELSE [pc |-> "completed", conv |-> c, msg |-> m]
    ELSE IF r.exc.type = "KeyboardInterrupt" THEN [pc |-> "interrupted", conv |-> c, msg |-> m]
    ELSE IF IsException(r.exc) THEN [pc |-> "failed", conv |-> c, msg |-> m]
    ELSE [pc |-> "cancelled", conv |-> c, msg |-> m]

\* run_demo calls process_with_tracing for the next message
OpikBegin(sk1, sk2) ==
    /\ app = "Opik"
    /\ pc = "idle"
    /\ LET b == process_with_tracing_begin(ConversationMessages(conv)[msg], ConvId(conv), sk1, sk2)
           a == OpikAfterCall(b.ret, conv, msg)
       IN  /\ sink' = sink \o b.emit
           /\ call' = [input |-> ConversationMessages(conv)[msg], conversation_id |-> ConvId(conv),
                       gw |-> NoGw, sinkFailed |-> (sk1 # SinkOk), inLoop |-> FALSE,
                       via |-> "await"]
           /\ ret' = b.ret
           /\ IF b.suspended
              THEN /\ pc' = "awaiting"
                   /\ gwCalls' = 1
                   /\ UNCHANGED <<conv, msg, total_interactions, stats>>
              ELSE /\ pc' = a.pc
                   /\ conv' = a.conv
                   /\ msg' = a.msg
                   /\ gwCalls' = 0
                   /\ stats' = Count(stats, b.ret, NoGw, 0)
                   /\ total_interactions' =
                          IF b.ret.kind = "text" THEN total_interactions + 1
                          ELSE total_interactions
    /\ turns' = turns + 1
    /\ UNCHANGED <<sessions, analytics, cli, app, built, env, agent, agent_status, messages>>

\* the gateway call resolves, or the awaiting call is abandoned
OpikResolve(gw, sk1, sk2) ==
    /\ app = "Opik"
    /\ pc = "awaiting"
    /\ LET p == process_with_tracing_resume(call.input, call.conversation_id, gw, sk1, sk2)
           a == OpikAfterCall(p.ret, conv, msg)
       IN  /\ sink' = sink \o p.emit
           /\ ret' = p.ret
           /\ stats' = Count(stats, p.ret, gw, 0)
           /\ pc' = a.pc
           /\ conv' = a.conv
           /\ msg' = a.msg
           /\ total_interactions' =
                  IF p.ret.kind = "text" THEN total_interactions + 1
                  ELSE total_interactions
           /\ call' = [call EXCEPT !.gw = gw,
                          !.sinkFailed = (gw.kind = "ok" /\ sk1 # SinkOk)
                                         \/ (IsException(IF gw.kind = "ok" THEN sk1 ELSE gw.exc)
                                             /\ sk2 # SinkOk)]
    /\ gwCalls' = gwCalls + RunnerRunsInExcept(gw)
    /\ UNCHANGED <<sessions, analytics, cli, app, built, env, agent, agent_status, messages, turns>>

----------------------------------------------------------------------------
(* CLIApp.py *)

\* str.lower() and str.strip()
ToLower(ch) ==
    CASE ch = "A" -> "a"
      [] ch = "B" -> "b"
      [] ch = "C" -> "c"
      [] ch = "D" -> "d"
      [] ch = "E" -> "e"
      [] ch = "F" -> "f"
      [] ch = "G" -> "g"
      [] ch = "H" -> "h"
      [] ch = "I" -> "i"
      [] ch = "J" -> "j"
      [] ch = "K" -> "k"
      [] ch = "L" -> "l"
      [] ch = "M" -> "m"
      [] ch = "N" -> "n"
      [] ch = "O" -> "o"
      [] ch = "P" -> "p"
      [] ch = "Q" -> "q"
      [] ch = "R" -> "r"
      [] ch = "S" -> "s"
      [] ch = "T" -> "t"
      [] ch = "U" -> "u"
      [] ch = "V" -> "v"
      [] ch = "W" -> "w"
      [] ch = "X" -> "x"
      [] ch = "Y" -> "y"
      [] ch = "Z" -> "z"
      [] OTHER -> ch

Lower(s) == [i \in 1..Len(s) |-> ToLower(s[i])]

IsSpace(ch) == ch \in {" ", "\t", "\n"}

RECURSIVE LStrip(_)
LStrip(s) == IF s # <<>> /\ IsSpace(Head(s)) THEN LStrip(Tail(s)) ELSE s

RECURSIVE RStrip(_)
RStrip(s) ==
    IF s # <<>> /\ IsSpace(s[Len(s)]) THEN RStrip(SubSeq(s, 1, Len(s) - 1)) ELSE s

Strip(s) == RStrip(LStrip(s))

ExitCommands == { <<"q","u","i","t">>, <<"e","x","i","t">>, <<"b","y","e">>, <<"q">> }

\* what may be typed at the "You: " prompt
CLILines == UserTexts \cup { <<"q">>, <<" ","Q","u","i","t"," ">>, <<" "," ">>, <<>> }

\* variant: the except branch returns the prefix without the fault's message
SimpleAIAgent_process_message_NoDetail(user_input, gw, sk) ==
    IF gw.kind = "ok"
    THEN IF sk = SinkOk
         THEN [emit |-> LogTraces(TraceRecord("azure_agent_response", user_input,
                                              gw.text, NoConv, "absent", "None"), sk),
               ret |-> Returned(gw.text)]
         ELSE [emit |-> <<>>, ret |-> Returned(ErrorProcessingMessage)]
    ELSE IF IsException(gw.exc)
         THEN [emit |-> <<>>, ret |-> Returned(ErrorProcessingMessage)]
         ELSE [emit |-> <<>>, ret |-> Raised(gw.exc)]

\* process_message, from the resumption of `await Runner.run` to its return
SimpleAIAgent_process_message(user_input, gw, sk) ==
    IF gw.kind = "ok"
    THEN IF sk = SinkOk
         THEN [emit |-> LogTraces(TraceRecord("azure_agent_response", user_input,
                                              gw.text, NoConv, "absent", "None"), sk),
               ret |-> Returned(gw.text)]
         ELSE [emit |-> <<>>, ret |-> Returned(ErrorProcessingMessage \o sk.msg)]
    ELSE IF IsException(gw.exc)
         THEN [emit |-> <<>>, ret |-> Returned(ErrorProcessingMessage \o gw.exc.msg)]
         ELSE [emit |-> <<>>, ret |-> Raised(gw.exc)]

\* what input() evaluates to: a line, or an exception
ReadLine(l) == [kind |-> "line", text |-> l, exc |-> NoExc]
ReadRaise(e) == [kind |-> "raise", text |-> NoText, exc |-> e]
NoRead == [kind |-> "none", text |-> NoText, exc |-> NoExc]
EOFMsg == <<"E","O","F"," ","w","h","e","n"," ","r","e","a","d","i","n","g"," ","a"," ","l","i","n","e">>
InputOutcomes ==
    { ReadLine(l) : l \in CLILines }
        \cup { ReadRaise(Exc("EOFError", EOFMsg)), ReadRaise(Exc("KeyboardInterrupt", NoText)) }

\* variant: the loop's handler for Exception breaks like the one above it
run_chat_except_Break(e) ==
    IF e.type = "KeyboardInterrupt" THEN [pc |-> "exited", out |-> "goodbye"]
    ELSE IF IsException(e) THEN [pc |-> "exited", out |-> "error"]
    ELSE [pc |-> "cancelled", out |-> "none"]

\* the except clauses of the run_chat loop for an exception e raised in the
\* try block: KeyboardInterrupt breaks, an Exception is printed and the loop
\* goes on, any other BaseException leaves run_chat
run_chat_except(e) ==
    IF e.type = "KeyboardInterrupt" THEN [pc |-> "exited", out |-> "goodbye"]
    ELSE IF IsException(e) THEN [pc |-> "idle", out |-> "error"]
    ELSE [pc |-> "cancelled", out |-> "none"]

\* run_chat returns before its loop when the agent was not constructed
CLINotInitialized ==
    /\ app = "CLIApp"
    /\ pc = "idle"
    /\ agent = "None"
    /\ pc' = "exited"
    /\ cli' = [cli EXCEPT !.out = "not_initialized"]
    /\ UNCHANGED <<sessions, analytics, app, built, env, agent, agent_status, messages, sink, call, ret, gwCalls, turns,
                   conv, msg, total_interactions, stats>>

\* one input() of the run_chat loop and what follows it up to the await
CLIInput(inp) ==
    /\ app = "CLIApp"
    /\ pc = "idle"
    /\ agent # "None"
    /\ turns < MaxTurns
    /\ IF inp.kind = "raise"
       THEN /\ pc' = run_chat_except(inp.exc).pc
            /\ cli' = [read |-> inp, out |-> run_chat_except(inp.exc).out]
            /\ UNCHANGED <<call, ret, gwCalls, turns>>
       ELSE LET user_input == Strip(inp.text)
            IN  IF Lower(user_input) \in ExitCommands
                THEN /\ pc' = "exited"
                     /\ cli' = [read |-> inp, out |-> "goodbye"]
                     /\ UNCHANGED <<call, ret, gwCalls, turns>>
                ELSE IF user_input = <<>>
                THEN /\ cli' = [read |-> inp, out |-> "please"]
                     /\ UNCHANGED <<pc, call, ret, gwCalls, turns>>
                ELSE /\ pc' = "awaiting"
                     /\ cli' = [read |-> inp, out |-> "processing"]
                     /\ call' = [input |-> user_input, conversation_id |-> NoConv,
                                 gw |-> NoGw, sinkFailed |-> FALSE, inLoop |-> FALSE,
                                 via |-> "await"]
                     /\ ret' = NoRet
                     /\ gwCalls' = 1
                     /\ turns' = turns + 1
    /\ UNCHANGED <<sessions, analytics, app, built, env, agent, agent_status, messages, sink, conv, msg,
                   total_interactions, stats>>

\* the gateway call resolves, or Ctrl-C abandons the awaiting call
CLIResolve(gw, sk) ==
    /\ app = "CLIApp"
    /\ pc = "awaiting"
    /\ LET p == SimpleAIAgent_process_message(call.input, gw, sk)
       IN  /\ sink' = sink \o p.emit
           /\ ret' = p.ret
           /\ stats' = Count(stats, p.ret, gw, 0)
           /\ pc' = IF p.ret.kind = "text" THEN "idle" ELSE run_chat_except(p.ret.exc).pc
           /\ cli' = [cli EXCEPT !.out = IF p.ret.kind = "text" THEN "assistant"
                                         ELSE run_chat_except(p.ret.exc).out]
    /\ call' = [call EXCEPT !.gw = gw, !.sinkFailed = (gw.kind = "ok" /\ sk # SinkOk)]
    /\ gwCalls' = gwCalls + RunnerRunsInExcept(gw)
    /\ UNCHANGED <<sessions, analytics, app, built, env, agent, agent_status, messages, turns, conv, msg, total_interactions>>

----------------------------------------------------------------------------
(* Configure.py and App.py *)

\* the attributes class Config defines
ConfigAttrs == {"AZURE_OPENAI_API_KEY", "AZURE_OPENAI_ENDPOINT", "AZURE_OPENAI_DEPLOYMENT",
                "AZURE_API_VERSION", "OPIK_PROJECT_NAME"}

NoAttrPrefix == <<"'","C","o","n","f","i","g","'"," ","o","b","j","e","c","t"," ","h","a","s"," ","n","o"," ","a","t","t","r","i","b","u","t","e"," ","'">>
AttrName(a) ==
    CASE a = "AZURE_OPENAI_KEY" -> <<"A","Z","U","R","E","_","O","P","E","N","A","I","_","K","E","Y">>
      [] a = "AZURE_DEPLOYMENT_NAME" -> <<"A","Z","U","R","E","_","D","E","P","L","O","Y","M","E","N","T","_","N","A","M","E">>
      [] OTHER -> <<"?">>

\* reading the attributes `names` of a Config instance in order: the first
\* one the class does not define raises AttributeError
RECURSIVE ConfigRead(_)
ConfigRead(names) ==
    IF names = <<>> THEN NoExc
    ELSE IF Head(names) \notin ConfigAttrs
         THEN Exc("AttributeError", NoAttrPrefix \o AttrName(Head(names)) \o <<"'">>)
         ELSE ConfigRead(Tail(names))

create_azure_client ==
    ConfigRead(<<"AZURE_OPENAI_KEY", "AZURE_API_VERSION", "AZURE_OPENAI_ENDPOINT">>)

create_agent == ConfigRead(<<"AZURE_DEPLOYMENT_NAME">>)

\* process_query, awaited with an agent: the gateway is invoked once
process_query(query, gw) ==
    IF gw.kind = "ok" THEN Returned(gw.text)
    ELSE IF IsException(gw.exc) THEN Returned(ErrorProcessingQuery \o gw.exc.msg)
    ELSE Raised(gw.exc)

\* run_query_sync: what it evaluates to and how often it invokes the gateway
run_query_sync(query, gw, inLoop) ==
    IF create_azure_client # NoExc
    THEN [ret |-> Returned(ErrorPrefix \o create_azure_client.msg), gwCalls |-> 0]
    ELSE IF create_agent # NoExc
    THEN [ret |-> Returned(ErrorPrefix \o create_agent.msg), gwCalls |-> 0]
    ELSE LET r == asyncio_run(process_query(query, gw), inLoop)
         IN  [ret |-> IF r.kind = "raised" /\ IsException(r.exc)
                      THEN Returned(ErrorPrefix \o r.exc.msg) ELSE r,
              gwCalls |-> IF inLoop THEN 0 ELSE 1]

\* the sidebar of main reads config.AZURE_OPENAI_KEY and, if that is truthy,
\* config.AZURE_OPENAI_ENDPOINT
AppSidebar == ConfigRead(<<"AZURE_OPENAI_KEY", "AZURE_OPENAI_ENDPOINT">>)

\* a caller invokes the synchronous bridge
AppRunQuerySync(query, gw, inLoop) ==
    /\ app = "App"
    /\ pc = "idle"
    /\ turns < MaxTurns
    /\ turns' = turns + 1
    /\ LET r == run_query_sync(query, gw, inLoop)
       IN  /\ ret' = r.ret
           /\ gwCalls' = r.gwCalls
           /\ stats' = Count(stats, r.ret, gw, 0)
    /\ call' = [input |-> query, conversation_id |-> NoConv, gw |-> gw,
                sinkFailed |-> FALSE, inLoop |-> inLoop, via |-> "bridge"]
    /\ UNCHANGED <<sessions, analytics, cli, app, built, env, pc, agent, agent_status, messages, sink, conv, msg, total_interactions>>

\* a cooperative caller awaits process_query itself
AppProcessQuery(query, gw) ==
    /\ app = "App"
    /\ pc = "idle"
    /\ turns < MaxTurns
    /\ turns' = turns + 1
    /\ ret' = process_query(query, gw)
    /\ stats' = Count(stats, process_query(query, gw), gw, 0)
    /\ gwCalls' = 1
    /\ call' = [input |-> query, conversation_id |-> NoConv, gw |-> gw,
                sinkFailed |-> FALSE, inLoop |-> TRUE, via |-> "await"]
    /\ UNCHANGED <<sessions, analytics, cli, app, built, env, pc, agent, agent_status, messages, sink, conv, msg, total_interactions>>

\* one run of the page script main(), with the chat input and the Reset
\* Conversation button as its inputs
AppMain(prompt, reset, gw) ==
    /\ app = "App"
    /\ pc = "idle"
    /\ turns < MaxTurns
    /\ turns' = turns + 1
    /\ IF AppSidebar # NoExc
       THEN UNCHANGED <<messages, ret, gwCalls, call, stats>>
       ELSE IF reset
       THEN /\ messages' = <<>>
            /\ UNCHANGED <<ret, gwCalls, call, stats>>
       ELSE IF prompt = NoText
       THEN UNCHANGED <<messages, ret, gwCalls, call, stats>>
       ELSE LET r == run_query_sync(prompt, gw, FALSE)
            IN  /\ ret' = r.ret
                /\ gwCalls' = r.gwCalls
                /\ stats' = Count(stats, r.ret, gw, IF r.ret.kind = "text" THEN 2 ELSE 1)
                /\ call' = [input |-> prompt, conversation_id |-> NoConv, gw |-> gw,
                            sinkFailed |-> FALSE, inLoop |-> FALSE, via |-> "bridge"]
                /\ messages' = IF r.ret.kind = "text"
                               THEN messages \o <<Turn("user", prompt),
                                                  Turn("assistant", r.ret.text)>>
                               ELSE Append(messages, Turn("user", prompt))
    /\ UNCHANGED <<sessions, analytics, cli, app, built, env, pc, agent, agent_status, sink, conv, msg, total_interactions>>

----------------------------------------------------------------------------

\* variant: the widget hands the submitted text to every later run as well
chat_input_Sticky(submitted, rerun) == submitted

\* st.chat_input: the submitted text in the script run the submission
\* triggers, None (the empty text) in every other run of the script
chat_input(submitted, rerun) == IF rerun THEN NoText ELSE submitted

\* the chat-input branch of main, up to the suspension at Runner.run
AzureChat(prompt, inLoop) ==
    /\ call' = [input |-> prompt, conversation_id |-> NoConv, gw |-> NoGw,
                sinkFailed |-> FALSE, inLoop |-> inLoop, via |-> "bridge"]
    /\ LET m == Append(AzureInitHistory(messages), Turn("user", prompt))
           r == asyncio_run(NoRet, inLoop)
       IN  IF r.kind = "raised"
           THEN /\ messages' = AzureAfterBridge(m, r)
                /\ ret' = r
                /\ stats' = Count(stats, r, NoGw, Len(AzureAfterBridge(m, r)) - Len(m) + 1)
                /\ gwCalls' = 0
                /\ pc' = "idle"
           ELSE /\ messages' = m
                /\ ret' = NoRet
                /\ stats' = [stats EXCEPT !.appended = @ + 1]
                /\ gwCalls' = 1
                /\ pc' = "awaiting"

\* a re-execution of the script: no submission triggered it
AzureRun ==
    /\ app = "AzureApp"
    /\ pc = "idle"
    /\ LET prompt == chat_input(call.input, TRUE)
       IN  IF agent = "None" \/ prompt = NoText
           THEN /\ messages' = IF agent = "None" THEN messages
                               ELSE AzureInitHistory(messages)
                /\ UNCHANGED <<pc, call, ret, gwCalls, stats>>
           ELSE AzureChat(prompt, FALSE)
    /\ UNCHANGED <<sessions, analytics, cli, app, built, env, agent, agent_status, sink, turns,
                   conv, msg, total_interactions>>

\* the script run a chat submission triggers, up to the suspension at Runner.run
AzureSubmit(prompt, inLoop) ==
    /\ app = "AzureApp"
    /\ pc = "idle"
    /\ agent # "None"
    /\ turns < MaxTurns
    /\ turns' = turns + 1
    /\ AzureChat(chat_input(prompt, FALSE), inLoop)
    /\ UNCHANGED <<sessions, analytics, cli, app, built, env, agent, agent_status, sink, conv, msg, total_interactions>>

\* the gateway call resolves; process_message and the script run finish
AzureResolve(gw, sk) ==
    /\ app = "AzureApp"
    /\ pc = "awaiting"
    /\ gw.kind = "ok" => built.azure_client
    /\ LET p == AIAgentApp_process_message(call.input, gw, sk)
           r == asyncio_run(p.ret, FALSE)
       IN  /\ sink' = sink \o p.emit
           /\ ret' = r
           /\ messages' = AzureAfterBridge(messages, r)
           /\ stats' = Count(stats, r, gw, Len(AzureAfterBridge(messages, r)) - Len(messages))
    /\ call' = [call EXCEPT !.gw = gw, !.sinkFailed = (sk # SinkOk)]
    /\ pc' = "idle"
    /\ gwCalls' = gwCalls + RunnerRunsInExcept(gw)
    /\ UNCHANGED <<sessions, analytics, cli, app, built, env, agent, agent_status, turns, conv, msg, total_interactions>>

\* the Clear Chat button
AzureClear ==
    /\ app = "AzureApp"
    /\ pc = "idle"
    /\ agent # "None"
    /\ messages' = <<Turn("assistant", Greeting)>>
    /\ UNCHANGED <<sessions, analytics, cli, app, built, env, pc, agent, agent_status, sink, call, ret, gwCalls, turns,
                   conv, msg, total_interactions, stats>>

----------------------------------------------------------------------------
(* Agent.py (with Config of Configure.py) *)

RequiredEnv == {"AZURE_OPENAI_API_KEY", "AZURE_OPENAI_ENDPOINT"}

\* the text of get_response when no agent exists (after its leading mark)
NotAvailable == <<"A","g","e","n","t"," ","n","o","t"," ","a","v","a","i","l","a","b","l","e","."," ","P","l","e","a","s","e"," ","c","h","e","c","k"," ","c","o","n","f","i","g","u","r","a","t","i","o","n",".">>
DegradedPrefix == <<"e","r","r","o","r"," ","p","r","o","c","e","s","s","i","n","g"," ","m","e","s","s","a","g","e",":"," ">>

\* Config.get_status()['configured']
Configured(e) == "AZURE_OPENAI_API_KEY" \in e /\ "AZURE_OPENAI_ENDPOINT" \in e

\* agent.chat of the agent module: the completion, or the degraded text
agent_chat(message, gw) ==
    IF gw.kind = "ok" THEN Returned(gw.text)
    ELSE Returned(DegradedPrefix \o gw.exc.msg)

\* get_response
get_response(message, a, gw) ==
    IF a # "None" THEN agent_chat(message, gw) ELSE Returned(NotAvailable)

\* the Clear Chat button of the sidebar, which is drawn before the
\* configuration check
AgentClear ==
    /\ app = "Agent"
    /\ pc = "idle"
    /\ messages' = <<>>
    /\ UNCHANGED <<sessions, analytics, cli, app, built, env, pc, agent, agent_status, sink, call, ret, gwCalls, turns,
                   conv, msg, total_interactions, stats>>

\* the disabled argument of st.chat_input: a disabled input yields no prompt
chat_input_disabled(status) == status # "ready"

\* a script run with chat input, up to the call of the agent
AgentSubmit(prompt) ==
    /\ app = "Agent"
    /\ pc = "idle"
    /\ Configured(env)
    /\ ~chat_input_disabled(agent_status)
    /\ turns < MaxTurns
    /\ turns' = turns + 1
    /\ messages' = Append(messages, Turn("user", prompt))
    /\ call' = [input |-> prompt, conversation_id |-> NoConv, gw |-> NoGw,
                sinkFailed |-> FALSE, inLoop |-> FALSE, via |-> "sync"]
    /\ ret' = NoRet
    /\ stats' = [stats EXCEPT !.appended = @ + 1]
    /\ gwCalls' = IF agent # "None" THEN 1 ELSE 0
    /\ pc' = "awaiting"
    /\ UNCHANGED <<sessions, analytics, cli, app, built, env, agent, agent_status, sink, conv, msg, total_interactions>>

\* get_response returns; the script appends the response and reruns, and the
\* rerun reads the chat input again
AgentResolve(gw) ==
    /\ app = "Agent"
    /\ pc = "awaiting"
    /\ LET r == get_response(call.input, agent, gw)
           m == Append(messages, Turn("assistant", r.text))
           prompt == chat_input(call.input, TRUE)
       IN  /\ ret' = r
           /\ IF prompt = NoText
              THEN /\ messages' = m
                   /\ stats' = Count(stats, r, gw, 1)
                   /\ call' = [call EXCEPT !.gw = gw]
                   /\ pc' = "idle"
              ELSE /\ messages' = Append(m, Turn("user", prompt))
                   /\ stats' = Count(stats, r, gw, 2)
                   /\ call' = [call EXCEPT !.input = prompt, !.gw = NoGw]
                   /\ pc' = "awaiting"
    /\ UNCHANGED <<sessions, analytics, cli, app, built, env, agent, agent_status, sink, gwCalls, turns, conv, msg,
                   total_interactions>>

----------------------------------------------------------------------------
(* AzureApp.py served to two browser sessions.  Streamlit runs main() once *)
(* per script run of a session, in a thread of its own, and hands it the   *)
(* st.session_state of that session; the Opik project is shared.  Each     *)
(* session keeps, next to its state, the history it would have had alone   *)
(* (alone), computed from its own inputs only.                             *)

Sessions == {"A", "B"}

\* chat submissions explored per session
MaxSessionTurns == 2

\* what the user of a session types
SessionText(s) == IF s = "A" THEN <<"h","i">> ELSE <<"y","o">>

\* variant: the history is one module-level list, not a key of session_state
SessionState_Shared(ss, s) == [ss[s] EXCEPT !.messages = ss["A"].messages]

\* st.session_state as seen by a script run of session s
SessionState(ss, s) == ss[s]

\* a script run of session s without chat input
SessionRun(s) ==
    /\ app = "Sessions"
    /\ sessions[s].pc = "idle"
    /\ LET st == SessionState(sessions, s)
       IN  sessions' = [sessions EXCEPT ![s].messages = AzureInitHistory(st.messages),
                                        ![s].alone = AzureInitHistory(@)]
    /\ UNCHANGED <<analytics, cli, app, built, env, pc, agent, agent_status, messages, sink, call, ret, gwCalls,
                   turns, conv, msg, total_interactions, stats>>

\* a script run of session s with chat input, up to the suspension at Runner.run
SessionSubmit(s, prompt) ==
    /\ app = "Sessions"
    /\ sessions[s].pc = "idle"
    /\ sessions[s].turns < MaxSessionTurns
    /\ LET st == SessionState(sessions, s)
       IN  sessions' = [sessions EXCEPT
               ![s].pc = "awaiting",
               ![s].input = prompt,
               ![s].turns = @ + 1,
               ![s].messages = Append(AzureInitHistory(st.messages), Turn("user", prompt)),
               ![s].alone = Append(AzureInitHistory(@), Turn("user", prompt))]
    /\ UNCHANGED <<analytics, cli, app, built, env, pc, agent, agent_status, messages, sink, call, ret, gwCalls,
                   turns, conv, msg, total_interactions, stats>>

\* the gateway call of session s resolves; its script run finishes
SessionResolve(s, gw, sk) ==
    /\ app = "Sessions"
    /\ sessions[s].pc = "awaiting"
    /\ LET st == SessionState(sessions, s)
           p == AIAgentApp_process_message(st.input, gw, sk)
           r == asyncio_run(p.ret, FALSE)
       IN  /\ sink' = sink \o p.emit
           /\ sessions' = [sessions EXCEPT
                  ![s].pc = "idle",
                  ![s].messages = AzureAfterBridge(st.messages, r),
                  ![s].alone = AzureAfterBridge(@, r)]
    /\ UNCHANGED <<analytics, cli, app, built, env, pc, agent, agent_status, messages, call, ret, gwCalls,
                   turns, conv, msg, total_interactions, stats>>

\* the Clear Chat button of session s
SessionClear(s) ==
    /\ app = "Sessions"
    /\ sessions[s].pc = "idle"
    /\ sessions' = [sessions EXCEPT ![s].messages = <<Turn("assistant", Greeting)>>,
                                    ![s].alone = <<Turn("assistant", Greeting)>>]
    /\ UNCHANGED <<analytics, cli, app, built, env, pc, agent, agent_status, messages, sink, call, ret, gwCalls,
                   turns, conv, msg, total_interactions, stats>>

----------------------------------------------------------------------------
(* OpikAnalytics.py.  One run of the script is main(): it fetches the      *)
(* traces of the project, analyses them, draws and exports the dataset and *)
(* prints the report.  Times are whole minutes, response times tenths of a *)
(* second, a mean is kept as its sum and count.                            *)

\* traces per stored batch and runs of the script explored
MaxBatch == 2
MaxRuns == 2

Min(a, b) == IF a <= b THEN a ELSE b

\* what the project may hold: end records as Opik.py emits them
OkRecord(c) ==
    TraceRecord("agent_response_generated", <<"h","i">>, <<"o","k">>, ConvId(c), "True", "None")
ErrorRecord(c) ==
    TraceRecord("agent_error", <<"h","i">>, GatewayMsg, ConvId(c), "False",
                "APIConnectionError")
StoredRecords == {OkRecord(1), ErrorRecord(2)}

\* ten records, nine of them ok and one an error
ScenarioBatch == [k \in 1..10 |-> IF k = 10 THEN ErrorRecord(1) ELSE OkRecord(1)]

Batches == UNION {[1..n -> StoredRecords] : n \in 0..MaxBatch} \cup {ScenarioBatch}

\* outcomes of client.get_traces
FetchOutcomes == {NoExc, Exc("ConnectionError", SinkMsg)}

\* variant: the fault of get_traces leaves fetch_traces
fetch_traces_Reraise(store, f) ==
    IF f = NoExc THEN [traces |-> SubSeq(store, 1, Min(Len(store), 100)), exc |-> NoExc]
    ELSE [traces |-> <<>>, exc |-> f]

\* fetch_traces(limit=100): the traces of the project, or the empty list when
\* get_traces raised
fetch_traces(store, f) ==
    IF f = NoExc THEN [traces |-> SubSeq(store, 1, Min(Len(store), 100)), exc |-> NoExc]
    ELSE [traces |-> <<>>, exc |-> NoExc]

\* f"{n:03d}" for n < 1000
Format03(n) == <<Digit(n \div 100), Digit((n \div 10) % 10), Digit(n % 10)>>

\* the sample_data list of analyze_performance, built at wall-clock time now
sample_data(now) ==
    [k \in 1..20 |->
        LET i == k - 1
        IN  [timestamp |-> now - i * 10,
             response_time |-> 25 + (i % 5) * 3,
             success |-> (i % 10 # 0),
             token_count |-> 150 + (i % 3) * 50,
             conversation_id |-> <<"c","o","n","v","_">> \o Format03(i \div 3),
             model |-> "gpt-4o-mini"]]

\* analyze_performance: no dataset (None) is the empty sequence
analyze_performance(traces, now) == IF traces = <<>> THEN <<>> ELSE sample_data(now)

\* a column of the dataset
Column(df, c) == [k \in 1..Len(df) |-> df[k][c]]

RECURSIVE SeqSum(_)
SeqSum(s) == IF s = <<>> THEN 0 ELSE Head(s) + SeqSum(Tail(s))
SeqMin(s) == CHOOSE x \in {s[k] : k \in 1..Len(s)} : \A k \in 1..Len(s) : x <= s[k]
SeqMax(s) == CHOOSE x \in {s[k] : k \in 1..Len(s)} : \A k \in 1..Len(s) : x >= s[k]
Successes(df) == Cardinality({k \in 1..Len(df) : df[k].success})

\* order of str: character by character in code-point order, a proper prefix first
CodePoints == <<"0","1","2","3","4","5","6","7","8","9","_","a","b","c","d","e","f","g","h","i","j","k","l","m","n","o","p","q","r","s","t","u","v","w","x","y","z">>
Ord(ch) == CHOOSE i \in 1..Len(CodePoints) : CodePoints[i] = ch
LexLess(a, b) ==
    \E i \in 1..(Min(Len(a), Len(b)) + 1) :
        /\ \A j \in 1..(i - 1) : a[j] = b[j]
        /\ IF i > Len(a) THEN i <= Len(b)
           ELSE i <= Len(b) /\ Ord(a[i]) < Ord(b[i])

RECURSIVE SortKeys(_)
SortKeys(S) ==
    IF S = {} THEN <<>>
    ELSE LET lo == CHOOSE x \in S : \A y \in S \ {x} : LexLess(x, y)
         IN  <<lo>> \o SortKeys(S \ {lo})

\* df.groupby('conversation_id')['success'].mean(): one entry per id, the ids
\* in sorted order
success_by_conv(df) ==
    LET keys == SortKeys({df[k].conversation_id : k \in 1..Len(df)})
    IN  [j \in 1..Len(keys) |->
            [conversation_id |-> keys[j],
             ok |-> Cardinality({k \in 1..Len(df) :
                        df[k].conversation_id = keys[j] /\ df[k].success}),
             n |-> Cardinality({k \in 1..Len(df) : df[k].conversation_id = keys[j]})]]

\* a mean is greater than another
MeanGreater(a, b) == a.ok * b.n > b.ok * a.n

\* variant: the last label of the maximum is taken
idxmax_Last(series) ==
    series[CHOOSE j \in 1..Len(series) :
               /\ \A h \in 1..Len(series) : ~MeanGreater(series[h], series[j])
               /\ \A h \in (j + 1)..Len(series) : MeanGreater(series[j], series[h])
          ].conversation_id

\* Series.idxmax(): the label of the first occurrence of the maximum
idxmax(series) ==
    series[CHOOSE j \in 1..Len(series) :
               /\ \A h \in 1..Len(series) : ~MeanGreater(series[h], series[j])
               /\ \A h \in 1..(j - 1) : MeanGreater(series[j], series[h])
          ].conversation_id

\* the figures analyze_performance prints
statistics(df) ==
    [count |-> Len(df),
     successes |-> Successes(df),
     response_time |-> [sum |-> SeqSum(Column(df, "response_time")),
                        squares |-> SeqSum([k \in 1..Len(df) |->
                                               df[k].response_time * df[k].response_time]),
                        min |-> SeqMin(Column(df, "response_time")),
                        max |-> SeqMax(Column(df, "response_time"))],
     token_count |-> [sum |-> SeqSum(Column(df, "token_count")),
                      min |-> SeqMin(Column(df, "token_count")),
                      max |-> SeqMax(Column(df, "token_count"))],
     unique_conversations |-> Len(success_by_conv(df))]

NoStatistics == [count |-> 0]
DeniedMsg == <<"P","e","r","m","i","s","s","i","o","n"," ","d","e","n","i","e","d">>

\* variant: the export reports the failure and returns
export_data_Swallow(df, writable) ==
    IF df # <<>> /\ writable THEN [rows |-> df, exc |-> NoExc]
    ELSE [rows |-> <<>>, exc |-> NoExc]

\* export_data: the rows df.to_csv wrote, and the exception it raised
export_data(df, writable) ==
    IF df # <<>>
    THEN IF writable THEN [rows |-> df, exc |-> NoExc]
         ELSE [rows |-> <<>>, exc |-> Exc("PermissionError", DeniedMsg)]
    ELSE [rows |-> <<>>, exc |-> NoExc]

\* generate_report
generate_report(store, f, now, writable) ==
    LET fetched == fetch_traces(store, f)
        traces == fetched.traces
        df == IF fetched.exc = NoExc THEN analyze_performance(traces, now) ELSE <<>>
        e == IF fetched.exc = NoExc THEN export_data(df, writable)
             ELSE [rows |-> <<>>, exc |-> fetched.exc]
    IN  [fetch |-> f,
         traces |-> traces,
         df |-> df,
         statistics |-> IF df # <<>> THEN statistics(df) ELSE NoStatistics,
         visualized |-> df # <<>>,
         export_called |-> df # <<>>,
         writable |-> writable,
         rows |-> e.rows,
         by_conversation |-> IF df # <<>> THEN success_by_conv(df) ELSE <<>>,
         best |-> IF df # <<>> /\ e.exc = NoExc THEN idxmax(success_by_conv(df)) ELSE NoText,
         raised |-> e.exc,
         finished |-> e.exc = NoExc]

\* one run of the script: main() calls generate_report and reports any
\* Exception that leaves it
OpikAnalyticsMain(f, d, writable) ==
    /\ app = "OpikAnalytics"
    /\ Len(analytics.runs) < MaxRuns
    /\ analytics' = [analytics EXCEPT
           !.clock = @ + d,
           !.runs = Append(@, generate_report(analytics.store, f, analytics.clock + d,
                                              writable))]
    /\ UNCHANGED <<sessions, cli, app, built, env, pc, agent, agent_status, messages, sink, call, ret,
                   gwCalls, turns, conv, msg, total_interactions, stats>>

----------------------------------------------------------------------------
(* Start-up of the entry points: which of the tracing client, the gateway  *)
(* client and the agent are constructed for an environment e, and whether  *)
(* the start-up ends the program (or the script run) before any chat.      *)

NothingBuilt == [opik_client |-> FALSE, azure_client |-> FALSE, agent |-> FALSE]

\* AIAgentApp.__init__ and the check of main that follows it: setup_clients
\* constructs the Opik client and then fails in AsyncAzureOpenAI when the key
\* or the endpoint is missing; setup_agent runs whatever setup_clients
\* returned; a is what setup_agent leaves in self.agent
AIAgentApp_init(e, a) ==
    [opik_client |-> TRUE, azure_client |-> Configured(e), agent |-> a # "None",
     stopped |-> a = "None"]

\* main of CLIApp.py: the required variables are checked before SimpleAIAgent()
CLIApp_main(e, a) ==
    IF ~Configured(e) THEN NothingBuilt @@ [stopped |-> TRUE]
    ELSE [opik_client |-> TRUE, azure_client |-> TRUE, agent |-> a # "None",
          stopped |-> FALSE]

\* main of Opik.py: the required variables are checked before run_demo
Opik_main(e) ==
    IF ~Configured(e) THEN NothingBuilt @@ [stopped |-> TRUE]
    ELSE [opik_client |-> TRUE, azure_client |-> TRUE, agent |-> TRUE, stopped |-> FALSE]

\* get_agent of the agent module: fails fast on an incomplete configuration
get_agent(e, a) == IF Configured(e) THEN a ELSE "None"

\* variant: agent_status is set to "ready" whether or not get_agent raised
init_session_state_AlwaysReady(e, a) ==
    [agent |-> get_agent(e, a), agent_status |-> "ready"]

\* init_session_state on the first script run of a session: the agent and
\* "ready", or no agent and the error status when get_agent raised
init_session_state(e, a) ==
    IF get_agent(e, a) # "None"
    THEN [agent |-> get_agent(e, a), agent_status |-> "ready"]
    ELSE [agent |-> "None", agent_status |-> "error"]

\* main of Agent.py: init_session_state, then the configuration check
Agent_main(e, a) ==
    [opik_client |-> FALSE, azure_client |-> FALSE, agent |-> get_agent(e, a) # "None",
     stopped |-> ~Configured(e)]

\* what start-up constructs, per entry point
Startup(a, e, ag) ==
    CASE a \in {"AzureApp", "Sessions"} -> AIAgentApp_init(e, ag)
      [] a = "CLIApp" -> CLIApp_main(e, ag)
      [] a = "Opik" -> Opik_main(e)
      [] a = "Agent" -> Agent_main(e, ag)
      [] OTHER -> [opik_client |-> TRUE, azure_client |-> FALSE, agent |-> FALSE,
                   stopped |-> FALSE]

----------------------------------------------------------------------------

Init ==
    /\ app \in {"AzureApp", "Opik", "CLIApp", "App", "Agent", "Sessions",
               "OpikAnalytics"}
    /\ env \in (IF app \in {"AzureApp", "CLIApp", "Opik", "Agent"} THEN SUBSET RequiredEnv
               ELSE {RequiredEnv})
    /\ pc = (IF app \in {"CLIApp", "Opik"} /\ ~Configured(env) THEN "unconfigured" ELSE "idle")
    /\ \E a \in {"Agent", "None"} :
           /\ agent = (CASE app = "AzureApp" -> a
                         [] app = "CLIApp" -> (IF Configured(env) THEN a ELSE "None")
                         [] app = "Agent" -> init_session_state(env, a).agent
                         [] app = "Opik" -> (IF Configured(env) THEN "Agent" ELSE "None")
                         [] OTHER -> "Agent")
           /\ built = Startup(app, env, agent)
           /\ agent_status = (IF app # "Agent" THEN "unset"
                              ELSE init_session_state(env, a).agent_status)
    /\ messages = <<>>
    /\ sink = <<>>
    /\ call = [input |-> NoText, conversation_id |-> NoConv, gw |-> NoGw,
               sinkFailed |-> FALSE, inLoop |-> FALSE, via |-> "none"]
    /\ ret = NoRet
    /\ gwCalls = 0
    /\ cli = [read |-> NoRead, out |-> "none"]
    /\ turns = 0
    /\ conv = 1
    /\ msg = 1
    /\ total_interactions = 0
    /\ stats = [ok |-> 0, bad |-> 0, appended |-> 0]
    /\ sessions = [s \in Sessions |->
                      [pc |-> "idle", messages |-> <<>>, input |-> NoText, turns |-> 0,
                       alone |-> <<>>]]
    /\ analytics \in {[store |-> b, clock |-> 0, runs |-> <<>>] :
                         b \in (IF app = "OpikAnalytics" THEN Batches ELSE {<<>>})}

Next ==
    \/ AzureRun
    \/ \E prompt \in UserTexts, inLoop \in BOOLEAN : AzureSubmit(prompt, inLoop)
    \/ \E gw \in GatewayOutcomes, sk \in SinkOutcomes : AzureResolve(gw, sk)
    \/ AzureClear
    \/ \E sk1 \in SinkOutcomes, sk2 \in SinkOutcomes : OpikBegin(sk1, sk2)
    \/ \E gw \in GatewayOutcomes \cup AbandonOutcomes, sk1 \in SinkOutcomes, sk2 \in SinkOutcomes :
           OpikResolve(gw, sk1, sk2)
    \/ CLINotInitialized
    \/ \E inp \in InputOutcomes : CLIInput(inp)
    \/ \E gw \in GatewayOutcomes \cup AbandonOutcomes, sk \in SinkOutcomes : CLIResolve(gw, sk)
    \/ \E query \in UserTexts, gw \in GatewayOutcomes, inLoop \in BOOLEAN :
           AppRunQuerySync(query, gw, inLoop)
    \/ \E query \in UserTexts, gw \in GatewayOutcomes : AppProcessQuery(query, gw)
    \/ \E prompt \in UserTexts \cup {NoText}, reset \in BOOLEAN, gw \in GatewayOutcomes :
           AppMain(prompt, reset, gw)
    \/ AgentClear
    \/ \E prompt \in UserTexts : AgentSubmit(prompt)
    \/ \E gw \in GatewayOutcomes : AgentResolve(gw)
    \/ \E s \in Sessions : SessionRun(s)
    \/ \E s \in Sessions : SessionSubmit(s, SessionText(s))
    \/ \E s \in Sessions, gw \in GatewayOutcomes, sk \in SinkOutcomes : SessionResolve(s, gw, sk)
    \/ \E s \in Sessions : SessionClear(s)
    \/ \E f \in FetchOutcomes, d \in {0, 1}, writable \in BOOLEAN :
           OpikAnalyticsMain(f, d, writable)

Spec == Init /\ [][Next]_vars

----------------------------------------------------------------------------
(* Properties *)

\* a process call has been made and is over
Finished == pc # "awaiting" /\ call.via # "none"

\* the outcome of the sink calls of the last call, as far as the call kept it
Abandoned(gw) == gw.kind = "raise" /\ ~IsException(gw.exc)

StartNames == {"user_input_received"}
EndNames == {"agent_response_generated", "agent_error"}
SameCall(a, b) == a.input = b.input /\ a.conversation_id = b.conversation_id

\* every start record is followed at once by one end record of its call, and
\* no call has two end records
AllSpansSealedOnce(s) ==
    /\ \A i \in 1..Len(s) : s[i].name \in StartNames =>
           /\ i < Len(s)
           /\ s[i + 1].name \in EndNames
           /\ SameCall(s[i], s[i + 1])
    /\ \A i \in 2..Len(s) : (s[i].name \in EndNames /\ s[i - 1].name \in EndNames) =>
           ~SameCall(s[i], s[i - 1])

\* the records that seal a span with status ok
OkNames == {"agent_response_generated", "azure_agent_response"}
OkSpans(s) == Cardinality({i \in 1..Len(s) : s[i].name \in OkNames})

\* C1: every per-turn process call returns a text and never raises, whatever
\* fault (other than an abandonment of the call) the model call or a step
\* around it raises.
C1_ProcessNeverRaises ==
    (Finished /\ ~Abandoned(call.gw) /\ ~(app = "AzureApp" /\ call.inLoop))
        => ret.kind = "text"

HistoryBefore ==
    IF app = "AzureApp" /\ messages = <<>> THEN <<Turn("assistant", Greeting)>> ELSE messages

\* C3: a process call that succeeds leaves the history as the previous history
\* followed by one user Turn with the submitted text and then one assistant
\* Turn with the returned completion; earlier Turns are unchanged.
C3_SuccessAppendsUserThenAssistant ==
    [][/\ (app \in {"AzureApp", "Agent"} /\ pc = "idle" /\ pc' = "awaiting")
          => messages' = Append(HistoryBefore, Turn("user", call'.input))
       /\ (app \in {"AzureApp", "Agent"} /\ pc = "awaiting" /\ pc' = "idle"
           /\ IsSuccess(ret', call'.gw))
          => /\ messages[Len(messages)] = Turn("user", call.input)
             /\ messages' = Append(messages, Turn("assistant", ret'.text))
             /\ ret'.text = call'.gw.text]_vars

C3_Witness ==
    /\ app = "AzureApp" /\ pc = "idle" /\ IsSuccess(ret, call.gw)
    /\ Len(messages) = 5
    /\ messages[4] = Turn("user", call.input)
    /\ messages[5] = Turn("assistant", call.gw.text)

\* C4: after N process calls on one session that all succeeded, exactly N
\* spans are sealed with status ok, and 2*N Turns were appended to the history.
C4_SpansAndTurnsPerSuccess ==
    (app \in {"Opik", "AzureApp", "CLIApp"} /\ pc # "awaiting" /\ stats.bad = 0)
        => /\ OkSpans(sink) = stats.ok
           /\ AllSpansSealedOnce(sink)
           /\ app = "AzureApp" => stats.appended = 2 * stats.ok

C4_Witness ==
    /\ app = "AzureApp" /\ pc = "idle" /\ stats.bad = 0 /\ stats.ok = 2
    /\ OkSpans(sink) = 2 /\ stats.appended = 4

\* C5: no process call is over while a span it opened has no end record, and
\* no span has two end records.
C5_EverySpanSealedOnce ==
    (app = "Opik" /\ pc # "awaiting") => AllSpansSealedOnce(sink)

\* C6: a process call abandoned while the gateway call is pending seals its
\* open span with status error and kind cancelled.
C6_AbandonedSpanSealedCancelled ==
    (app = "Opik" /\ Finished /\ Abandoned(call.gw))
        => /\ sink # <<>>
           /\ sink[Len(sink)].name = "agent_error"
           /\ sink[Len(sink)].success = "False"
           /\ sink[Len(sink)].error_type \in {"cancelled", "CancelledError", "KeyboardInterrupt"}
           /\ sink[Len(sink)].input = call.input

\* C7: a failing sink call never changes the outcome of the turn: the gateway
\* is still invoked, its completion is still what process returns, and the
\* sink's fault does not reach the caller.
C7_SinkFailureContained ==
    (app \in {"Opik", "AzureApp", "CLIApp"} /\ Finished /\ call.sinkFailed)
        => /\ gwCalls = 1
           /\ ret.kind # "raised"
           /\ call.gw.kind = "ok" => ret = Returned(call.gw.text)

\* role sequence user, assistant, user, ... of the Turns from position k on
Alternates(m, k) ==
    \A i \in k..Len(m) : m[i].role = (IF (i - k) % 2 = 0 THEN "user" ELSE "assistant")

SystemTurns(m) == {i \in 1..Len(m) : m[i].role = "system"}

LastSink == IF call.sinkFailed THEN Exc("ConnectionError", SinkMsg) ELSE SinkOk

\* C9: the synchronous bridge and the directly awaited call return the same
\* text and emit the same records for the same user text and gateway outcome.
C9_BridgeEquivalentToAwait ==
    /\ (app = "AzureApp" /\ Finished /\ ~call.inLoop) =>
           LET d == SimpleAIAgent_process_message(call.input, call.gw, LastSink)
           IN  /\ ret = d.ret
               /\ d.emit # <<>> => (sink # <<>> /\ sink[Len(sink)] = d.emit[1])
    /\ (app = "CLIApp" /\ Finished) =>
           LET b == AIAgentApp_process_message(call.input, call.gw, LastSink)
           IN  /\ ret = asyncio_run(b.ret, FALSE)
               /\ b.emit # <<>> => (sink # <<>> /\ sink[Len(sink)] = b.emit[1])
    /\ (app = "App" /\ Finished /\ call.via = "bridge" /\ ~call.inLoop) =>
           ret = process_query(call.input, call.gw)

UserContents(m) == {m[i].content : i \in {j \in 1..Len(m) : m[j].role = "user"}}

\* C11: two sessions that run process concurrently do not affect each other:
\* under every interleaving of their steps, the history of each session is the
\* history that session would have had alone, and every user Turn in it is a
\* text that session submitted.
C11_SessionsIndependent ==
    app = "Sessions" =>
        \A s \in Sessions :
            /\ sessions[s].messages = sessions[s].alone
            /\ UserContents(sessions[s].messages) \subseteq {SessionText(s)}

C11_Witness ==
    /\ app = "Sessions"
    /\ sessions["A"].pc = "awaiting" /\ Len(sessions["A"].messages) = 4
    /\ sessions["B"].pc = "awaiting" /\ Len(sessions["B"].messages) = 4
    /\ sessions["A"].messages[3].content # sessions["B"].messages[3].content

\* the conversation of demo_conversations a message text belongs to
ConversationOf(text) ==
    {c \in 1..NumConversations :
        \E m \in 1..Len(ConversationMessages(c)) : ConversationMessages(c)[m] = text}

\* C12: a conversation's id is fixed: every trace record emitted for a turn of
\* a conversation (start, success and error records alike) carries the id of
\* that conversation and of no other, and the id a call was given does not
\* change while the call is in progress.
C12_RecordsCarryConversationId ==
    /\ [](app = "Opik" =>
            \A i \in 1..Len(sink) :
                /\ ConversationOf(sink[i].input) # {}
                /\ \A c \in ConversationOf(sink[i].input) :
                       sink[i].conversation_id = ConvId(c))
    /\ [][(app = "Opik" /\ pc' = "awaiting") =>
              /\ call'.conversation_id = ConvId(conv)
              /\ call'.input \in {ConversationMessages(conv)[m] :
                                      m \in 1..Len(ConversationMessages(conv))}]_vars
    /\ [][(app = "Opik" /\ pc = "awaiting") =>
              call'.conversation_id = call.conversation_id]_vars

C12_Witness ==
    /\ app = "Opik" /\ pc = "completed"
    /\ \E i, j, k \in 1..Len(sink) :
           /\ sink[i].name = "user_input_received" /\ sink[i].conversation_id = ConvId(1)
           /\ sink[j].name = "agent_response_generated" /\ sink[j].conversation_id = ConvId(1)
           /\ sink[k].name = "agent_error" /\ sink[k].conversation_id = ConvId(2)

\* the runs of the analytics script so far
Runs == {analytics.runs[r] : r \in 1..Len(analytics.runs)}

\* the records of a batch with status ok
OkCount(traces) == Cardinality({k \in 1..Len(traces) : traces[k].success = "True"})

\* C13: for every batch of ingested trace records, the report's count is the
\* number of records in the batch and its success rate is the fraction of
\* those records with status ok (10 records with 9 ok: count 10, rate 0.9).
C13_CountAndRateOfBatch ==
    app = "OpikAnalytics" =>
        \A run \in Runs :
            run.df # <<>> =>
                /\ run.statistics.count = Len(run.traces)
                /\ run.statistics.successes * Len(run.traces) =
                       OkCount(run.traces) * run.statistics.count

\* C14: two runs of the analysis on the same batch of records give the same
\* report and the same dataset, field by field.
C14_AnalysisDeterministic ==
    app = "OpikAnalytics" =>
        \A r1 \in Runs, r2 \in Runs :
            r1.traces = r2.traces =>
                /\ r1.statistics = r2.statistics
                /\ r1.by_conversation = r2.by_conversation
                /\ r1.df = r2.df

\* the success rate of one conversation of a dataset, as successes and rows
RateOf(df, id) ==
    [ok |-> Cardinality({k \in 1..Len(df) : df[k].conversation_id = id /\ df[k].success}),
     n |-> Cardinality({k \in 1..Len(df) : df[k].conversation_id = id})]

ConversationsOf(df) == {df[k].conversation_id : k \in 1..Len(df)}

\* C15: the conversation reported as best performing has the highest
\* per-conversation success rate of the dataset, and among the conversations
\* that tie for that rate it is the lexicographically lowest id.
C15_BestIsHighestThenLowestId ==
    app = "OpikAnalytics" =>
        \A run \in Runs :
            (run.df # <<>> /\ run.finished) =>
                /\ run.best \in ConversationsOf(run.df)
                /\ \A id \in ConversationsOf(run.df) :
                       /\ ~MeanGreater(RateOf(run.df, id), RateOf(run.df, run.best))
                       /\ (id # run.best
                           /\ ~MeanGreater(RateOf(run.df, run.best), RateOf(run.df, id)))
                          => LexLess(run.best, id)

C15_Witness ==
    /\ app = "OpikAnalytics"
    /\ \E run \in Runs :
           /\ run.finished
           /\ run.best = <<"c","o","n","v","_","0","0","1">>
           /\ RateOf(run.df, <<"c","o","n","v","_","0","0","0">>).ok = 2
           /\ RateOf(run.df, <<"c","o","n","v","_","0","0","6">>) = [ok |-> 2, n |-> 2]

\* C16: an export to an unwritable destination fails with an I/O error
\* (ExportIOError; in Python the OSError PermissionError of df.to_csv) that
\* reaches the caller of the export, and writes no row.
C16_ExportFailureSurfaces ==
    app = "OpikAnalytics" =>
        \A run \in Runs :
            (run.export_called /\ ~run.writable) =>
                /\ run.raised.type \in {"ExportIOError", "PermissionError", "OSError"}
                /\ ~run.finished
                /\ run.rows = <<>>

C16_Witness ==
    /\ app = "OpikAnalytics"
    /\ Len(analytics.runs) = 2
    /\ analytics.runs[1].export_called /\ ~analytics.runs[1].writable
    /\ analytics.runs[1].raised.type = "PermissionError" /\ analytics.runs[1].rows = <<>>
    /\ analytics.runs[2].writable /\ Len(analytics.runs[2].rows) = 20

\* C17: in every run where a required field (credential or endpoint) is
\* absent, no agent, gateway client or tracing client is constructed, and
\* start-up fails fast instead of going on to the chat.
C17_NoConstructionWithoutConfig ==
    (app \in {"AzureApp", "CLIApp", "Agent", "Opik"} /\ ~Configured(env)) =>
        /\ ~built.opik_client
        /\ ~built.azure_client
        /\ ~built.agent
        /\ built.stopped
        /\ gwCalls = 0

\* process calls made so far: the finished ones and the one in progress
ProcessCalls == stats.ok + stats.bad + (IF pc = "awaiting" THEN 1 ELSE 0)

\* C18: for each prompt submitted to the chat surface, process is invoked at
\* most once, however often the page script is re-executed afterwards: a call
\* starts only in the script run a new submission triggers, and there are
\* never more calls than submissions.
C18_ProcessOncePerSubmission ==
    /\ [](app \in {"AzureApp", "Agent"} => ProcessCalls <= turns)
    /\ [][(app \in {"AzureApp", "Agent"} /\ ProcessCalls' > ProcessCalls)
            => (turns' = turns + 1 /\ ProcessCalls' = ProcessCalls + 1)]_vars

C18_Witness ==
    /\ app = "Agent" /\ pc = "idle" /\ turns = 2 /\ ProcessCalls = 2
    /\ Len(messages) = 4

\* a process call is over whose gateway call failed with an Exception
GatewayFailed == Finished /\ call.gw.kind = "raise" /\ IsException(call.gw.exc)

WithoutGreeting(m) ==
    IF m # <<>> /\ m[1] = Turn("assistant", Greeting) THEN Tail(m) ELSE m

\* C20: the message list a process call hands to the model gateway is the
\* session's full history in order, ending with the just-appended user Turn
\* (with or without the greeting Turn of the chat surface).
C20_GatewayGetsFullHistory ==
    (app = "AzureApp" /\ pc = "awaiting" /\ gwCalls = 1) =>
        /\ messages[Len(messages)] = Turn("user", call.input)
        /\ Runner_input(call.input) \in {messages, WithoutGreeting(messages)}

\* C21: within one process call the model gateway is invoked at most once:
\* when the gateway call fails the call is over with the degraded result of
\* that turn and the gateway is not invoked again.
C21_GatewayAtMostOncePerCall ==
    /\ [](app \in {"Opik", "CLIApp", "AzureApp"} => gwCalls <= 1)
    /\ [][(app \in {"Opik", "CLIApp", "AzureApp"} /\ pc = "awaiting"
           /\ call'.gw.kind = "raise")
            => /\ gwCalls' = gwCalls
               /\ ~IsSuccess(ret', call'.gw)
               /\ ret'.kind # "none"
               /\ (IsException(call'.gw.exc) /\ ~call'.sinkFailed) =>
                      (ret'.kind = "text" /\ Contains(Lower(ret'.text), LowerError))]_vars

C21_Witness ==
    /\ app = "CLIApp" /\ pc = "idle" /\ turns = 2 /\ gwCalls = 1
    /\ call.gw.kind = "raise"
    /\ ret = Returned(ErrorProcessingMessage \o GatewayMsg)

\* the place of a message in run_demo's loops: conversation, then message
TurnOf(text) ==
    CHOOSE p \in (1..NumConversations) \X (1..2) :
        p[2] <= Len(ConversationMessages(p[1])) /\ ConversationMessages(p[1])[p[2]] = text

TurnAfter(p, q) == p[1] > q[1] \/ (p[1] = q[1] /\ p[2] > q[2])

\* C22: within one session the trace records are emitted in causal order: no
\* record of a later turn is emitted before a record of an earlier turn, and
\* within a turn no end record (success or error) is emitted before the start
\* record.
C22_RecordsInCausalOrder ==
    app = "Opik" =>
        \A i \in 1..Len(sink), j \in 1..Len(sink) :
            i < j =>
                /\ ~TurnAfter(TurnOf(sink[i].input), TurnOf(sink[j].input))
                /\ ~(/\ sink[i].input = sink[j].input
                     /\ sink[i].name \in EndNames
                     /\ sink[j].name \in StartNames)

C22_Witness ==
    /\ app = "Opik" /\ pc = "completed" /\ Len(sink) >= 6
    /\ \E i \in 1..(Len(sink) - 3) :
           /\ sink[i].name = "user_input_received"
           /\ sink[i + 1].name = "agent_error" /\ sink[i + 1].input = sink[i].input
           /\ sink[i + 2].name = "user_input_received" /\ sink[i + 2].input # sink[i].input
           /\ sink[i + 3].name = "agent_response_generated"

\* C23: in the Streamlit app of Agent.py agent_status is "ready" exactly when
\* the agent object is present, a prompt is submitted only while agent_status
\* is "ready", and the agent's chat operation is invoked only in such a state.
C23_ChatOnlyWhenReady ==
    /\ [](app = "Agent" => (agent_status = "ready" <=> agent # "None"))
    /\ [][(app = "Agent" /\ pc = "idle" /\ pc' = "awaiting")
            => /\ agent_status = "ready"
               /\ agent # "None"
               /\ gwCalls' = 1]_vars
    /\ [](app = "Agent" /\ agent_status # "ready" => (gwCalls = 0 /\ pc = "idle"))

C23_Witness ==
    /\ app = "Agent" /\ pc = "idle" /\ agent_status = "ready" /\ agent = "Agent"
    /\ turns = 2 /\ gwCalls = 1 /\ ret.kind = "text"
    /\ Len(messages) = 4

\* C24: in AzureApp process_message is invoked only when setup_clients and
\* setup_agent both completed without error; when the client initialisation
\* failed the application accepts no chat input.
C24_ProcessOnlyAfterSetup ==
    app = "AzureApp" =>
        /\ (call.via # "none" => (built.azure_client /\ built.agent))
        /\ (~built.azure_client => UserContents(messages) = {})

\* a line that is an exit command: quit, exit, bye or q in any case, with
\* nothing but whitespace around it
IsExitLine(l) ==
    \E i \in 1..(Len(l) + 1), j \in 0..Len(l) :
        /\ \A k \in 1..(i - 1) : IsSpace(l[k])
        /\ \A k \in (j + 1)..Len(l) : IsSpace(l[k])
        /\ Lower(SubSeq(l, i, j)) \in { <<"q","u","i","t">>, <<"e","x","i","t">>,
                                       <<"b","y","e">>, <<"q">> }

InLoop == app = "CLIApp" /\ agent # "None" /\ pc \in {"idle", "awaiting"}

\* across a step of the loop: the exception raised by input() or by the
\* processing of the message, the exit line read, the report of a fault
RaisedInStep ==
    IF pc = "idle" THEN cli'.read.exc
    ELSE IF call'.gw.kind = "raise" THEN call'.gw.exc ELSE NoExc

ExitRead == pc = "idle" /\ cli'.read.kind = "line" /\ IsExitLine(cli'.read.text)

LoopLeft == pc' \notin {"idle", "awaiting"}

ReportedAndContinued ==
    /\ pc' = "idle"
    /\ \/ cli'.out = "error"
       \/ cli'.out = "assistant" /\ ret'.kind = "text"
              /\ StartsWith(ret'.text, ErrorProcessingMessage)

\* C25 (as claimed): the run_chat loop ends only when an exit command is read
\* or a KeyboardInterrupt occurs; any other exception raised while reading
\* input or processing a message is reported and the loop continues.
C25_LoopEndsOnlyOnExitOrInterrupt ==
    [][InLoop =>
        /\ LoopLeft => (ExitRead \/ RaisedInStep.type = "KeyboardInterrupt")
        /\ RaisedInStep.type \notin {"None", "KeyboardInterrupt"} => ReportedAndContinued]_vars

\* C25 (amended): the run_chat loop ends exactly when an exit command is
\* read, a KeyboardInterrupt occurs, or an exception that is not an Exception
\* (a task cancellation) is raised; every Exception raised while reading input
\* or processing a message is reported and the loop continues.
C25_LoopEndsOnExitInterruptOrCancel ==
    [][InLoop =>
        /\ LoopLeft <=> \/ ExitRead
                        \/ RaisedInStep.type = "KeyboardInterrupt"
                        \/ RaisedInStep.type = "CancelledError"
        /\ IsException(RaisedInStep) => ReportedAndContinued]_vars

C25_Witness ==
    /\ app = "CLIApp" /\ pc = "exited" /\ turns = 2
    /\ call.gw.kind = "raise" /\ IsException(call.gw.exc)
    /\ cli.read = ReadLine(<<" ","Q","u","i","t"," ">>)
    /\ cli.out = "goodbye"

\* C26: in a report run whose fetch fails or returns no traces, fetch_traces
\* hands back an empty batch instead of raising, the analysis yields no
\* dataset, neither visualisation nor export is performed, and the run
\* completes without raising.
C26_EmptyFetchContained ==
    app = "OpikAnalytics" =>
        \A run \in Runs :
            (run.fetch # NoExc \/ analytics.store = <<>>) =>
                /\ run.traces = <<>>
                /\ run.df = <<>>
                /\ ~run.visualized
                /\ ~run.export_called
                /\ run.rows = <<>>
                /\ run.raised = NoExc
                /\ run.finished

C26_Witness ==
    /\ app = "OpikAnalytics"
    /\ analytics.store # <<>>
    /\ Len(analytics.runs) = 2
    /\ analytics.runs[1].fetch # NoExc /\ analytics.runs[1].df = <<>>
    /\ analytics.runs[1].finished /\ ~analytics.runs[1].export_called
    /\ analytics.runs[2].fetch = NoExc /\ Len(analytics.runs[2].df) = 20
    /\ analytics.runs[2].export_called

====
